---- MODULE Spec2Model ----
(***************************************************************************)
(* KArmedBandits (chapter2MultiArmedBandits/k_armed_bandits.py) as a state *)
(* machine: the constructor, reset and one_act, with the random draws as   *)
(* nondeterministic choices from small sets.                               *)
(*                                                                         *)
(* Numbers.  The +, -, *, / of the code are modelled over exact rationals  *)
(* <<n, d>> (d > 0, lowest terms).  np.log, np.sqrt and np.exp are         *)
(* evaluated in fixed point (see LogMilli, Isqrt, Exp); the preference     *)
(* array, whose update goes through np.exp, is kept in units of 1/PScale.  *)
(* Arrays are functions over 0..k-1, as the code indexes them.             *)
(***************************************************************************)
EXTENDS Integers, Sequences, FiniteSets, TLC

\* ------------------------------------------------------------ bounds
MaxK == 2
MaxRound == 3

\* ------------------------------------------------------------ rationals
Abs(x) == IF x < 0 THEN -x ELSE x

RECURSIVE GCD(_, _)
GCD(a, b) == IF b = 0 THEN a ELSE GCD(b, a % b)

Rat(n, d) ==
    LET g == GCD(Abs(n), Abs(d))
        s == IF d < 0 THEN -1 ELSE 1
    IN  <<(s * n) \div g, (s * d) \div g>>

Zero == <<0, 1>>
One == <<1, 1>>

RatAdd(x, y) == Rat(x[1] * y[2] + y[1] * x[2], x[2] * y[2])
RatSub(x, y) == Rat(x[1] * y[2] - y[1] * x[2], x[2] * y[2])
RatMul(x, y) == Rat(x[1] * y[1], x[2] * y[2])
RatDiv(x, y) == Rat(x[1] * y[2], x[2] * y[1])
RatLess(x, y) == x[1] * y[2] < y[1] * x[2]
RatLeq(x, y) == x[1] * y[2] <= y[1] * x[2]

\* ndarray.argmax(): the index of the first occurrence of the maximum.
ArgmaxLast(arr, n) ==
    CHOOSE i \in 0..(n - 1) :
        /\ \A j \in 0..(n - 1) : RatLeq(arr[j], arr[i])
        /\ \A j \in (i + 1)..(n - 1) : RatLess(arr[j], arr[i])

Argmax(arr, n) ==
    CHOOSE i \in 0..(n - 1) :
        /\ \A j \in 0..(n - 1) : RatLeq(arr[j], arr[i])
        /\ \A j \in 0..(i - 1) : RatLess(arr[j], arr[i])

\* np.zeros(n)
Zeros(n) == [i \in 0..(n - 1) |-> Zero]

\* ------------------------------------------------------------ fixed point
\* np.log(n) for the round numbers the model reaches, in units of 1/1000.
LogMilli(n) == <<0, 693, 1099, 1386, 1609, 1792, 1946, 2079>>[n]

RECURSIVE IsqrtIter(_, _, _)
IsqrtIter(x, lo, hi) ==
    IF lo >= hi THEN lo
    ELSE LET mid == (lo + hi + 1) \div 2
         IN  IF mid * mid <= x THEN IsqrtIter(x, mid, hi)
             ELSE IsqrtIter(x, lo, mid - 1)

\* floor(sqrt(x)) for 0 <= x < 2^31
Isqrt(x) == IsqrtIter(x, 0, 46340)

\* units of the preference array: 1/PScale
PScale == 1000
ExpTerms == 8

RECURSIVE ExpHorner(_, _, _)
ExpHorner(x, j, acc) ==
    IF j = 0 THEN acc
    ELSE ExpHorner(x, j - 1, PScale + (x * acc) \div (j * PScale))

\* np.exp(x / PScale) * PScale, by the power series to ExpTerms terms
\* (within 1% for |x| <= 3 * PScale, far beyond what MaxRound steps reach).
Exp(x) == ExpHorner(x, ExpTerms, PScale)

\* ------------------------------------------------------------ inputs
\* Arguments a caller may pass to the constructor, valid and invalid.
KArgs == (-1)..MaxK
StrategyArgs == {"greedy", "ucb", "prefer", "softmax"}
AlphaArgs == {<<1, 10>>}
EpsilonArgs == {<<-1, 2>>, Zero, <<1, 2>>}
ConfidenceArgs == {<<-1, 1>>, Zero, One}
TrueRewardArgs == {Zero}
InitialValueArgs == {Zero, One}

\* Standard-normal draws: np.random.randn (true action values) and the
\* noise of random.normalvariate(mu, 1) (rewards).
RandnDraws == {-1, 1}
NormalDraws == {-1, 1}

\* self.__current_action before the first step
None == -1

\* ------------------------------------------------------------ state
VARIABLES
    pc,               \* "new": not constructed; "ready"; "failed": __init__ raised
    err,              \* the exception raised by the last call, or "none"
    attrs,            \* names of the attributes the instance holds
    args,             \* the arguments of the constructor call
    k, alpha, epsilon, strategy, stationary, confidence,
    true_reward, initial_value, prefer_baseline,
    rounds, average_reward, current_reward, current_action,
    prefer, action_counter, value_estimate, action_values, best_action,
    baseline,         \* local `baseline` of the last __update_state of this run
    reward_total,     \* per action, the sum of the rewards received in this run
    last_call         \* the method called last: "__init__", "reset", "one_act"

ctl == <<pc, err, attrs, args>>
cfg == <<k, alpha, epsilon, strategy, stationary, confidence,
         true_reward, initial_value, prefer_baseline>>
arrays == <<prefer, action_counter, value_estimate, action_values>>
run == <<rounds, average_reward, current_reward, current_action,
         prefer, action_counter, value_estimate, action_values, best_action>>
hist == <<baseline, reward_total, last_call>>
vars == <<ctl, cfg, run, hist>>

ScalarAttrs ==
    {"_k", "__rounds", "_alpha", "_epsilon", "_average_reward",
     "__current_reward", "__current_action", "_strategy", "_stationary",
     "_confidence", "_true_reward", "_initial_value", "_prefer_baseline"}
ArrayAttrs == {"_prefer", "_action_counter", "_value_estimate", "_action_values"}
AllAttrs == ScalarAttrs \cup ArrayAttrs \cup {"__best_action"}

NoArgs ==
    [k |-> 0, alpha |-> Zero, epsilon |-> Zero, confidence |-> Zero,
     true_reward |-> Zero, initial_value |-> Zero, stationary |-> FALSE,
     strategy |-> "", prefer_baseline |-> FALSE]

Init ==
    /\ pc = "new" /\ err = "none" /\ attrs = {} /\ args = NoArgs
    /\ k = 0 /\ alpha = Zero /\ epsilon = Zero /\ strategy = ""
    /\ stationary = <<>> /\ confidence = Zero /\ true_reward = Zero
    /\ initial_value = Zero /\ prefer_baseline = FALSE
    /\ rounds = 0 /\ average_reward = Zero /\ current_reward = Zero
    /\ current_action = None
    /\ prefer = [i \in {} |-> 0] /\ action_counter = [i \in {} |-> 0]
    /\ value_estimate = Zeros(0) /\ action_values = Zeros(0)
    /\ best_action = None
    /\ baseline = Zero /\ reward_total = Zeros(0) /\ last_call = "none"

\* ------------------------------------------------------------ __init__
\* assert strategy in {"greedy", "ucb", "prefer"}
AssertStrategyAny(s) == TRUE

AssertStrategy(s) == s \in {"greedy", "ucb", "prefer"}

\* assert k > 0 and epsilon >= 0 and confidence >= 0
AssertDomain(kk, e, c) == kk > 0 /\ RatLeq(Zero, e) /\ RatLeq(Zero, c)

\* np.random.randn(n) + true_reward, for the draws z
ActionValues(n, tr, z) == [i \in 0..(n - 1) |-> RatAdd(<<z[i], 1>>, tr)]

\* The scalar assignments of lines 42-54.
InitScalars(a) ==
    /\ k' = a.k /\ rounds' = 0 /\ alpha' = a.alpha /\ epsilon' = a.epsilon
    /\ average_reward' = Zero /\ current_reward' = Zero
    /\ current_action' = None /\ strategy' = a.strategy
    /\ stationary' = <<a.stationary>>      \* line 50 ends in a comma: a 1-tuple
    /\ confidence' = a.confidence /\ true_reward' = a.true_reward
    /\ initial_value' = a.initial_value
    /\ prefer_baseline' = a.prefer_baseline

\* The array assignments of lines 56-59.
InitArrays(a, z) ==
    /\ prefer' = [i \in 0..(a.k - 1) |-> 0]
    /\ action_counter' = [i \in 0..(a.k - 1) |-> 0]
    /\ value_estimate' = [i \in 0..(a.k - 1) |-> RatAdd(Zero, a.initial_value)]
    /\ action_values' = ActionValues(a.k, a.true_reward, z)

init(a, z) ==
    /\ args' = a
    /\ last_call' = "__init__"
    /\ baseline' = Zero
    /\ IF ~(AssertStrategy(a.strategy)
             /\ AssertDomain(a.k, a.epsilon, a.confidence))
       THEN \* an assert of lines 39-40 raises before any assignment
            /\ pc' = "failed" /\ err' = "AssertionError" /\ attrs' = {}
            /\ UNCHANGED <<cfg, run, reward_total>>
       ELSE IF a.k < 0
       THEN \* np.zeros(k), line 56: negative dimensions are not allowed
            /\ pc' = "failed" /\ err' = "ValueError" /\ attrs' = ScalarAttrs
            /\ InitScalars(a)
            /\ UNCHANGED <<arrays, best_action, reward_total>>
       ELSE IF a.k = 0
       THEN \* argmax of an empty array, line 61
            /\ pc' = "failed" /\ err' = "ValueError"
            /\ attrs' = ScalarAttrs \cup ArrayAttrs
            /\ InitScalars(a) /\ InitArrays(a, z)
            /\ reward_total' = Zeros(0)
            /\ UNCHANGED best_action
       ELSE /\ pc' = "ready" /\ err' = "none" /\ attrs' = AllAttrs
            /\ InitScalars(a) /\ InitArrays(a, z)
            /\ best_action' = Argmax(action_values', a.k)
            /\ reward_total' = Zeros(a.k)

Construct ==
    /\ pc = "new"
    /\ \E kk \in KArgs, al \in AlphaArgs, e \in EpsilonArgs,
          c \in ConfidenceArgs, tr \in TrueRewardArgs,
          iv \in InitialValueArgs, st \in BOOLEAN, sg \in StrategyArgs,
          pb \in BOOLEAN :
         \E z \in [0..(kk - 1) -> RandnDraws] :
            init([k |-> kk, alpha |-> al, epsilon |-> e, confidence |-> c,
                  true_reward |-> tr, initial_value |-> iv,
                  stationary |-> st, strategy |-> sg,
                  prefer_baseline |-> pb], z)

\* ------------------------------------------------------------ reset
resetKeepsLast(z) ==
    /\ rounds' = 0
    /\ average_reward' = Zero
    /\ prefer' = [i \in 0..(k - 1) |-> 0]
    /\ action_counter' = [i \in 0..(k - 1) |-> 0]
    /\ value_estimate' = [i \in 0..(k - 1) |-> RatAdd(Zero, initial_value)]
    /\ action_values' = ActionValues(k, true_reward, z)
    /\ best_action' = Argmax(action_values', k)
    /\ baseline' = Zero /\ reward_total' = Zeros(k)
    /\ last_call' = "reset"
    /\ UNCHANGED <<ctl, cfg, current_reward, current_action>>

reset(z) ==
    /\ rounds' = 0
    /\ average_reward' = Zero
    /\ current_reward' = Zero
    /\ current_action' = None
    /\ prefer' = [i \in 0..(k - 1) |-> 0]
    /\ action_counter' = [i \in 0..(k - 1) |-> 0]
    /\ value_estimate' = [i \in 0..(k - 1) |-> RatAdd(Zero, initial_value)]
    /\ action_values' = ActionValues(k, true_reward, z)
    /\ best_action' = Argmax(action_values', k)
    /\ baseline' = Zero /\ reward_total' = Zeros(k)
    /\ last_call' = "reset"
    /\ UNCHANGED <<ctl, cfg>>

Reset ==
    /\ pc = "ready"
    /\ \E z \in [0..(k - 1) -> RandnDraws] : reset(z)

\* ------------------------------------------------------------ selection
\* random.random() < self._epsilon, with random.random() in [0, 1)
ToExploreLeq == {b \in BOOLEAN : /\ b => RatLeq(Zero, epsilon)
                                 /\ ~b => RatLess(epsilon, One)}

ToExplore == {b \in BOOLEAN : /\ b => RatLess(Zero, epsilon)
                              /\ ~b => RatLess(epsilon, One)}

\* __greedy_action: the actions it can return
greedy_action ==
    {a \in 0..(k - 1) :
        \E b \in ToExplore : b \/ a = Argmax(value_estimate, k)}

\* np.sqrt(np.log(rounds) / (action_counter[i] + 1e-5)), in units of 1/100
UcbSqrt(i) ==
    Isqrt((LogMilli(rounds) * 1000000) \div (action_counter[i] * 100000 + 1))

UcbEstimate ==
    [i \in 0..(k - 1) |->
        RatAdd(value_estimate[i], RatMul(confidence, Rat(UcbSqrt(i), 100)))]

ucb_action == Argmax(UcbEstimate, k)

grad_bandit_action == Argmax([i \in 0..(k - 1) |-> <<prefer[i], PScale>>], k)

\* ------------------------------------------------------------ update
\* random.normalvariate(self._action_values[action], 1), for the draw z
get_reward(action, z) == RatAdd(action_values[action], <<z, 1>>)

StepSizeAlpha(n) == alpha

\* np.divide(1, counter) if self._stationary else self._alpha; _stationary
\* is a tuple, true when it is not empty.
StepSize(n) == IF Len(stationary) > 0 THEN RatDiv(One, <<n, 1>>) ELSE alpha

\* (rounds-1)/rounds * average_reward + reward/rounds
NewAverage(r, avg, reward) ==
    RatAdd(RatMul(RatDiv(<<r - 1, 1>>, <<r, 1>>), avg),
           RatDiv(reward, <<r, 1>>))

BaselineStale(avg) == IF prefer_baseline THEN average_reward ELSE Zero

\* baseline = self._average_reward if self._prefer_baseline else 0
Baseline(avg) == IF prefer_baseline THEN avg ELSE Zero

RECURSIVE SumTo(_, _)
SumTo(f, n) == IF n = 0 THEN 0 ELSE f[n - 1] + SumTo(f, n - 1)

\* a rational to the nearest multiple of 1/PScale
ToFixed(x) == (2 * x[1] * PScale + x[2]) \div (2 * x[2])

\* self._prefer + alpha*(reward-baseline)*(one_hot-action_prob)
NewPrefer(action, reward, base) ==
    LET e == [i \in 0..(k - 1) |-> Exp(prefer[i])]
        soft_max_deno == SumTo(e, k)
        factor == RatMul(alpha, RatSub(reward, base))
        delta(i) == RatMul(factor,
                           RatSub(IF i = action THEN One ELSE Zero,
                                  Rat(e[i], soft_max_deno)))
    IN  [i \in 0..(k - 1) |-> prefer[i] + ToFixed(delta(i))]

NextCounterTwice(action) == [action_counter EXCEPT ![action] = @ + 2]

\* self._action_counter[action] += 1
NextCounter(action) == [action_counter EXCEPT ![action] = @ + 1]

NewEstimateAlways(action, reward) ==
    [value_estimate EXCEPT ![action] =
        RatAdd(@, RatMul(StepSize(action_counter[action] + 1),
                         RatSub(reward, @)))]

\* value_estimate after lines 140-152
NewEstimate(action, reward) ==
    IF strategy = "prefer" THEN value_estimate
    ELSE [value_estimate EXCEPT ![action] =
            RatAdd(@, RatMul(StepSize(NextCounter(action)[action]),
                             RatSub(reward, @)))]

update_state(action, z) ==
    LET reward == get_reward(action, z) IN
    /\ rounds' = rounds + 1
    /\ action_counter' = NextCounter(action)
    /\ current_reward' = reward
    /\ current_action' = action
    /\ last_call' = "one_act"
    /\ reward_total' = [reward_total EXCEPT ![action] = RatAdd(@, reward)]
    /\ IF rounds' = 0
       THEN \* line 137 divides by self.__rounds
            /\ err' = "ZeroDivisionError"
            /\ UNCHANGED <<pc, attrs, args, average_reward, prefer,
                           value_estimate, baseline>>
       ELSE /\ average_reward' = NewAverage(rounds', average_reward, reward)
            /\ baseline' = IF strategy = "prefer"
                           THEN Baseline(average_reward') ELSE baseline
            /\ prefer' = IF strategy = "prefer"
                         THEN NewPrefer(action, reward, baseline')
                         ELSE prefer
            /\ value_estimate' = NewEstimate(action, reward)
            /\ UNCHANGED ctl
    /\ UNCHANGED <<cfg, action_values, best_action>>

\* The actions one_act can select.
Selectable ==
    IF rounds = 0 THEN 0..(k - 1)          \* random.randint(0, k-1)
    ELSE IF strategy = "greedy" THEN greedy_action
    ELSE IF strategy = "ucb" THEN {ucb_action}
    ELSE {grad_bandit_action}

one_act ==
    /\ pc = "ready" /\ err = "none"
    /\ rounds < MaxRound
    /\ \E action \in Selectable, z \in NormalDraws : update_state(action, z)

Next == Construct \/ Reset \/ one_act

Spec == Init /\ [][Next]_vars

\* ------------------------------------------------------------ properties
Ready == pc = "ready"
ValueStrategy == strategy \in {"greedy", "ucb"}

\* A transition made by one_act.
Stepped == Ready /\ last_call' = "one_act" /\ rounds' # rounds

\* i holds a maximum of arr and no lower index does.
FirstMax(arr, i) ==
    /\ i \in 0..(k - 1)
    /\ \A j \in 0..(k - 1) : ~RatLess(arr[i], arr[j])
    /\ \A j \in 0..(k - 1) : j < i => arr[j] # arr[i]

\* C1: every action_counter entry is a non-negative integer and the entries
\* sum to rounds; a step raises rounds by 1 and exactly the chosen action's
\* counter by 1.
C1_CounterInv ==
    Ready => /\ \A i \in 0..(k - 1) : action_counter[i] \in Nat
             /\ SumTo(action_counter, k) = rounds

C1_StepCounts ==
    Stepped =>
        /\ rounds' = rounds + 1
        /\ current_action' \in 0..(k - 1)
        /\ \A i \in 0..(k - 1) :
              action_counter'[i] =
                  action_counter[i] + (IF i = current_action' THEN 1 ELSE 0)

C1_CountsSumToRounds == []C1_CounterInv /\ [][C1_StepCounts]_vars

C1_Witness ==
    /\ Ready /\ rounds = MaxRound /\ k >= 2
    /\ \A i \in 0..(k - 1) : action_counter[i] >= 1

\* C2: reset, from any reachable state, gives rounds = 0, average_reward = 0,
\* zero counters and preferences, value estimates equal to initial_value and
\* the last action and reward of a fresh instance, and leaves the
\* configuration alone.
C2_FreshRun ==
    /\ rounds = 0 /\ average_reward = Zero
    /\ current_action = None /\ current_reward = Zero
    /\ DOMAIN action_counter = 0..(k - 1)
    /\ DOMAIN value_estimate = 0..(k - 1)
    /\ DOMAIN prefer = 0..(k - 1)
    /\ \A i \in 0..(k - 1) :
          /\ action_counter[i] = 0
          /\ prefer[i] = 0
          /\ value_estimate[i] = initial_value

C2_ResetStep ==
    (Ready /\ last_call' = "reset") => (C2_FreshRun' /\ UNCHANGED cfg)

C2_ResetRestores ==
    [](last_call = "__init__" /\ Ready => C2_FreshRun) /\ [][C2_ResetStep]_vars

C2_Witness ==
    /\ Ready /\ last_call = "reset" /\ k = MaxK
    /\ initial_value = One /\ strategy = "prefer"

\* C3: best_action is the first index of the maximum of action_values, and
\* the two change only in the constructor and in reset, never in a step.
C3_BestInv == Ready => FirstMax(action_values, best_action)

C3_Redraw ==
    (action_values' # action_values \/ best_action' # best_action)
        => last_call' \in {"__init__", "reset"}

C3_BestActionIsArgmax == []C3_BestInv /\ [][C3_Redraw]_vars

C3_Witness ==
    /\ Ready /\ k >= 2 /\ rounds >= 1
    /\ action_values[0] = action_values[1] /\ best_action = 0

\* C4: greedy with epsilon = 0 selects, in every step after the first of a
\* run, the first index of the maximum of value_estimate.
C4_GreedyStep ==
    (Stepped /\ strategy = "greedy" /\ epsilon = Zero /\ rounds >= 1)
        => FirstMax(value_estimate, current_action')

C4_PureGreedy == [][C4_GreedyStep]_vars

C4_Witness ==
    /\ Ready /\ strategy = "greedy" /\ epsilon = Zero
    /\ rounds >= 2 /\ k >= 2 /\ current_action = 1
    /\ action_counter[0] >= 1

\* C5: under ucb with k >= 2 and confidence > 0 the step taken at
\* rounds = 1 selects an action that has not been selected yet.
C5_UcbStep ==
    (Stepped /\ strategy = "ucb" /\ k >= 2 /\ RatLess(Zero, confidence)
        /\ rounds = 1)
        => action_counter[current_action'] = 0

C5_UcbSecondStepUnvisited == [][C5_UcbStep]_vars

\* C6: constructed with stationary = False under greedy or ucb, every step
\* moves the chosen estimate by alpha * (reward - estimate).
C6_ConstantStep ==
    (Stepped /\ ValueStrategy /\ args.stationary = FALSE)
        => value_estimate'[current_action'] =
              RatAdd(value_estimate[current_action'],
                     RatMul(alpha, RatSub(current_reward',
                                          value_estimate[current_action'])))

C6_NonStationaryUsesAlpha == [][C6_ConstantStep]_vars

\* C7: constructed with stationary = True under greedy or ucb, the estimate
\* of an action selected n >= 1 times is the mean of its n rewards of this
\* run, and the estimate of an action not selected is initial_value.
C7_SampleAverage ==
    (Ready /\ ValueStrategy /\ args.stationary = TRUE) =>
        \A a \in 0..(k - 1) :
            IF action_counter[a] >= 1
            THEN value_estimate[a] =
                     Rat(reward_total[a][1],
                         reward_total[a][2] * action_counter[a])
            ELSE value_estimate[a] = initial_value

C7_Witness ==
    /\ Ready /\ ValueStrategy /\ args.stationary = TRUE
    /\ initial_value = One
    /\ \E a \in 0..(k - 1) : action_counter[a] = 3 /\ value_estimate[a][2] = 3

\* C8: the constructor raises, leaving no attribute set, exactly when the
\* strategy is not recognised or k <= 0 or epsilon < 0 or confidence < 0;
\* otherwise it succeeds and no later reset or step raises.
C8_ValidArgs ==
    /\ args.strategy \in {"greedy", "ucb", "prefer"}
    /\ args.k > 0
    /\ ~RatLess(args.epsilon, Zero)
    /\ ~RatLess(args.confidence, Zero)

C8_Construction ==
    pc # "new" =>
        IF C8_ValidArgs
        THEN /\ pc = "ready" /\ err = "none" /\ attrs = AllAttrs
             /\ Selectable # {}
        ELSE pc = "failed" /\ err # "none" /\ attrs = {}

C8_Witness ==
    /\ pc = "failed" /\ attrs = {} /\ args.strategy = "softmax"
    /\ args.k > 0 /\ args.epsilon = Zero /\ args.confidence = One

\* C9: under greedy and ucb the preferences stay zero and a step changes
\* value_estimate at the chosen index only; under prefer value_estimate
\* stays at initial_value everywhere.
C9_ExclusiveInv ==
    Ready => \A i \in 0..(k - 1) :
                /\ ValueStrategy => prefer[i] = 0
                /\ strategy = "prefer" => value_estimate[i] = initial_value

C9_Frame ==
    (Stepped /\ ValueStrategy) =>
        \A i \in 0..(k - 1) :
            i # current_action' => value_estimate'[i] = value_estimate[i]

C9_StrategyExclusive == []C9_ExclusiveInv /\ [][C9_Frame]_vars

C9_Witness ==
    /\ Ready /\ strategy = "prefer" /\ initial_value = One /\ rounds >= 2
    /\ \E i \in 0..(k - 1) : prefer[i] # 0

\* C10: under prefer with prefer_baseline the baseline of a step is the
\* average_reward that already holds the step's reward, so the first step of
\* a run leaves the preferences zero and the second step selects action 0;
\* without prefer_baseline the baseline is 0.
C10_Baseline ==
    (Ready /\ strategy = "prefer") =>
        /\ (prefer_baseline /\ rounds >= 1) => baseline = average_reward
        /\ (prefer_baseline /\ rounds = 1) =>
              /\ baseline = current_reward
              /\ \A i \in 0..(k - 1) : prefer[i] = 0
        /\ (prefer_baseline /\ rounds = 2) => current_action = 0
        /\ ~prefer_baseline => baseline = Zero

C10_Witness ==
    /\ Ready /\ strategy = "prefer" /\ prefer_baseline
    /\ rounds = 2 /\ k >= 2 /\ current_action = 0
    /\ action_counter[1] = 1 /\ current_reward # Zero

====
